---------------------------- MODULE Spec2Model ----------------------------
(***************************************************************************)
(* State-machine model of two workflows of the gallery application:        *)
(*                                                                         *)
(*  - the repository cleanup dialog (components/RepoCleanupModal.tsx with  *)
(*    the listing and deletion calls of services/githubService.ts):        *)
(*    handleScan, executeDelete, toggleSelection and the dialog's buttons; *)
(*  - the scene viewer (BabylonScene: engine initialisation, runUserCode,  *)
(*    the render loop).                                                    *)
(*                                                                         *)
(* JavaScript runs each handler to its next await without interleaving, so *)
(* an action is one such run: a click handler up to its first await, or    *)
(* the continuation that a network response resumes.                       *)
(***************************************************************************)
EXTENDS Integers, Sequences, FiniteSets, TLC

(***************************************************************************)
(* Bounds of the model.                                                    *)
(***************************************************************************)
\* Most entries of a directory in the pure scan specification.
MaxListing == 4
\* Most entries of the remote directory in the dialog specification.
MaxFiles == 3
\* Most rescan timers pending at once.
MaxTimers == 2
\* Most listing requests in flight at once.
MaxScans == 2
\* Most scenes created on one engine.
MaxScenes == 4
\* Most generation requests in flight at once.
MaxGens == 2
\* Most entries of the console when the user starts something new.
MaxLogs == 4

\* The entries of the directories of SkipSpec.
MaxSkipFiles == 4

(***************************************************************************)
(* State of the cleanup dialog and of its collaborators.                   *)
(***************************************************************************)
VARIABLES
    remote,            \* the remote directory: the entries the contents API lists, in its order
    token,             \* useState token
    repoStr,           \* useState repoStr
    isScanning,        \* useState isScanning
    duplicates,        \* useState duplicates: sequence of [sha, files]
    selectedToDelete,  \* useState selectedToDelete: a Set, kept in insertion order
    status,            \* useState status
    isDeleting,        \* useState isDeleting
    showConfirm,       \* useState showConfirm
    scans,             \* listing requests of handleScan awaiting their response
    batch,             \* the locals of the running (or just finished) executeDelete
    reqLog,            \* the delete requests of that batch, each pending, ok or failed
    timers,            \* pending setTimeout callbacks, each with its closure's token and repoStr
    autoScan,          \* a timer has started a scan since the last batch ended (and it is in flight)
    memo               \* a remembered earlier scan: its listing and what it produced

dialogVars == <<remote, token, repoStr, isScanning, duplicates, selectedToDelete,
                status, isDeleting, showConfirm, scans, batch, reqLog, timers, autoScan, memo>>

(***************************************************************************)
(* State of the scene viewer (BabylonScene).                               *)
(***************************************************************************)
VARIABLES
    engine,            \* engineRef.current: "none", or the Engine, "running" or "disposed"
    scenes,            \* every Scene created on the engine, in order of creation
    sceneRef,          \* sceneRef.current: an index of scenes, 0 for null
    code,              \* the code prop: a program, <<>> for the empty string
    runs,              \* executions of runUserCode suspended at an await of the program
    notice,            \* the last callback made: onLog or onError
    lastRendered,      \* the scene the render loop drew last
    started,           \* what held when the text of the last program began to run
    results,           \* for every scene, how the execution of its program ended, if it has
    unhandled,         \* a promise of runUserCode was rejected: an exception left it
    frames             \* the parity of the number of frames rendered

sceneVars == <<engine, scenes, sceneRef, code, runs, notice, lastRendered, started,
               results, unhandled, frames>>

(***************************************************************************)
(* State of the visualizer tab (VisualizerTab), the parent of the viewer:  *)
(* its code state is the viewer's code prop.                               *)
(***************************************************************************)
VARIABLES
    prompt,            \* useState prompt
    logs,              \* useState logs: the console, newest entry first
    isGenerating,      \* useState isGenerating
    gens,              \* the generateSceneCode calls awaiting their response, oldest first:
                       \* [prompt, overtaken: a call made later has resolved already]
    origin             \* where the code state comes from: the prompt of the request or of
                       \* the preset that set it, and whether that request was overtaken

tabVars == <<prompt, logs, isGenerating, gens, origin>>

viewerVars == <<sceneVars, tabVars>>

(***************************************************************************)
(* Data: FileRecord (GitHubFile of githubService.ts).                      *)
(* A name is a sequence of collation keys (1 < 2 < 3: "a" < "b" < "c"), so *)
(* that its length and its alphabetical order are computed, not assumed.   *)
(* A path is the folder prefix followed by the name.                       *)
(***************************************************************************)
Names == << <<1>>, <<2>>, <<1, 1>>, <<1, 2>>, <<2, 1>>, <<1, 1, 1>> >>

\* The missing content hash of a malformed listing entry (undefined: falsy).
NoSha == ""

Shas == {"s1", "s2"}

ShaValues == Shas \cup {NoSha}

\* folderPath + "/" + name : 0 stands for the folder prefix.
PathOf(name) == <<0>> \o name

\* path.split('/').pop()
FileNameOf(path) == Tail(path)

\* An entry of the contents API: type 'file' with an image extension or not.
Entry(name, sha, img) == [name |-> name, path |-> PathOf(name), sha |-> sha, img |-> img]

Range(s) == {s[i] : i \in 1..Len(s)}


(***************************************************************************)
(* Pure functions of handleScan: the comparator, the sort, the grouping.   *)
(***************************************************************************)
\* String.prototype.localeCompare on names: negative, zero or positive.
RECURSIVE localeCompare(_, _)
localeCompare(a, b) ==
    IF a = <<>> THEN (IF b = <<>> THEN 0 ELSE -1)
    ELSE IF b = <<>> THEN 1
    ELSE IF Head(a) # Head(b) THEN Head(a) - Head(b)
    ELSE localeCompare(Tail(a), Tail(b))

\* A comparator that forgets the tie-break among names of equal length.
CompareFiles_LengthOnly(a, b) == Len(a.name) - Len(b.name)

\* The comparator given to sort: name length first, then localeCompare.
CompareFiles(a, b) ==
    IF Len(a.name) # Len(b.name) THEN Len(a.name) - Len(b.name)
    ELSE localeCompare(a.name, b.name)

\* One insertion of a stable sort: f goes before the first element greater than it.
RECURSIVE InsertSorted(_, _)
InsertSorted(sorted, f) ==
    IF sorted = <<>> THEN <<f>>
    ELSE IF CompareFiles(f, Head(sorted)) < 0 THEN <<f>> \o sorted
    ELSE <<Head(sorted)>> \o InsertSorted(Tail(sorted), f)

\* [...groupFiles].sort(comparator): Array.prototype.sort is stable.
RECURSIVE SortFiles(_)
SortFiles(fs) ==
    IF fs = <<>> THEN <<>>
    ELSE InsertSorted(SortFiles(SubSeq(fs, 1, Len(fs) - 1)), fs[Len(fs)])

\* shaMap.get(sha) || []
ShaMapGet(map, sha) ==
    IF \E k \in 1..Len(map) : map[k].sha = sha
    THEN map[CHOOSE k \in 1..Len(map) : map[k].sha = sha].files
    ELSE <<>>

\* shaMap.set(sha, list): a Map keeps the insertion order of its keys.
ShaMapSet(map, sha, list) ==
    IF \E k \in 1..Len(map) : map[k].sha = sha
    THEN [k \in 1..Len(map) |->
            IF map[k].sha = sha THEN [sha |-> sha, files |-> list] ELSE map[k]]
    ELSE Append(map, [sha |-> sha, files |-> list])

\* files.forEach(file => { list = get || []; list.push(file); set })
RECURSIVE GroupBySha(_)
GroupBySha(files) ==
    IF files = <<>> THEN <<>>
    ELSE LET map == GroupBySha(SubSeq(files, 1, Len(files) - 1))
             file == files[Len(files)]
         IN  ShaMapSet(map, file.sha, Append(ShaMapGet(map, file.sha), file))

\* A filter that lets the groups of a single file through (length > 0).
RECURSIVE FindDupes_KeepSingles(_)
FindDupes_KeepSingles(map) ==
    IF map = <<>> THEN <<>>
    ELSE <<[sha |-> Head(map).sha, files |-> SortFiles(Head(map).files)]>>
             \o FindDupes_KeepSingles(Tail(map))

\* shaMap.forEach: a group of more than one file is pushed, sorted, to dupes.
RECURSIVE FindDupes(_)
FindDupes(map) ==
    IF map = <<>> THEN <<>>
    ELSE LET rest == FindDupes(Tail(map))
         IN  IF Len(Head(map).files) > 1
             THEN <<[sha |-> Head(map).sha, files |-> SortFiles(Head(map).files)]>> \o rest
             ELSE rest

\* Set.prototype.add on a set kept in insertion order.
SetAdd(set, x) == IF x \in Range(set) THEN set ELSE Append(set, x)

RECURSIVE SetAddPaths(_, _)
SetAddPaths(set, fs) ==
    IF fs = <<>> THEN set ELSE SetAddPaths(SetAdd(set, Head(fs).path), Tail(fs))

\* A marking loop that starts at index 0 and so marks the keep member too.
RECURSIVE MarkRedundant_FromZero(_)
MarkRedundant_FromZero(dupes) ==
    IF dupes = <<>> THEN <<>>
    ELSE SetAddPaths(MarkRedundant_FromZero(SubSeq(dupes, 1, Len(dupes) - 1)),
                     dupes[Len(dupes)].files)

\* A marking loop that adds to a given set instead of a new Set.
RECURSIVE MarkOnto(_, _)
MarkOnto(set, dupes) ==
    IF dupes = <<>> THEN set
    ELSE SetAddPaths(MarkOnto(set, SubSeq(dupes, 1, Len(dupes) - 1)),
                     Tail(dupes[Len(dupes)].files))

\* The functional-updater slip: the marks are added to the selection in state.
MarkRedundant_OntoSelection(dupes) == MarkOnto(selectedToDelete, dupes)

\* for (i = 1; i < sorted.length; i++) toDelete.add(sorted[i].path), over all groups.
RECURSIVE MarkRedundant(_)
MarkRedundant(dupes) ==
    IF dupes = <<>> THEN <<>>
    ELSE SetAddPaths(MarkRedundant(SubSeq(dupes, 1, Len(dupes) - 1)),
                     Tail(dupes[Len(dupes)].files))

\* getRepoFiles: the entries of type 'file' with an image extension, in the
\* order of the response.
GetRepoFiles(data) == SelectSeq(data, LAMBDA e : e.img)

(***************************************************************************)
(* The form fields.  A token is non-blank or blank; a repository string    *)
(* is a sequence of characters that parseRepo splits at "/".               *)
(***************************************************************************)
Tokens == {"", " ", "ghp"}

\* token.trim()
Trim(tok) == IF tok = " " THEN "" ELSE tok

RepoStrs == {<<"o", "/", "r">>, <<"o", "/", " ">>}

\* str.split('/') : the pieces between the slashes.
RECURSIVE Split(_)
Split(str) ==
    IF str = <<>> THEN << <<>> >>
    ELSE LET parts == Split(SubSeq(str, 1, Len(str) - 1))
             c == str[Len(str)]
         IN  IF c = "/" THEN Append(parts, <<>>)
             ELSE [parts EXCEPT ![Len(parts)] = Append(@, c)]

\* part.trim() of a piece.
TrimPart(part) == SelectSeq(part, LAMBDA c : c # " ")

NoRepo == <<>>

\* parseRepo: null unless exactly two non-blank pieces.
ParseRepo(str) ==
    LET parts == Split(str)
    IN  IF Len(parts) # 2 THEN NoRepo
        ELSE IF TrimPart(parts[1]) = <<>> \/ TrimPart(parts[2]) = <<>> THEN NoRepo
        ELSE <<TrimPart(parts[1]), TrimPart(parts[2])>>

(***************************************************************************)
(* Values of the dialog's state.                                            *)
(***************************************************************************)
\* A status line: its kind, the numbers and the texts it interpolates.
St(kind, n, m, text, file) == [kind |-> kind, n |-> n, m |-> m, text |-> text, file |-> file]

NoStatus == St("none", 0, 0, "", <<>>)

NoBatch == [active |-> FALSE, paths |-> <<>>, dups |-> <<>>, i |-> 0,
            deletedCount |-> 0, errorCount |-> 0, lastError |-> "",
            token |-> "", repoStr |-> <<>>, untouched |-> FALSE]

NoMemo == [set |-> FALSE, listing |-> <<>>, dupes |-> <<>>, toDelete |-> <<>>,
           touched |-> FALSE, again |-> FALSE]

\* The remembered scan notes that the user or a batch has acted since.
MemoTouch == memo' = IF memo.set THEN [memo EXCEPT !.touched = TRUE] ELSE memo

\* The messages a failed delete request carries (err.message of the response).
Msgs == {"Not Found", "Bad credentials"}

\* error.message.includes('Not Found')
IncludesNotFound(msg) == msg \in {"Not Found"}

ScopeHint == "404 Not Found (Check if Token has 'repo' or 'public_repo' write scope)"

\* The catch block's choice of lastError.
ClassifyError(msg) ==
    IF msg # "" /\ IncludesNotFound(msg) THEN ScopeHint
    ELSE IF msg # "" THEN msg ELSE "Unknown error"

(***************************************************************************)
(* handleScan.                                                             *)
(***************************************************************************)
\* The synchronous part of handleScan, run with the token and repoStr of the
\* closure that calls it: validation, then the reset and the listing request.
HandleScan(tok, repo) ==
    IF Trim(tok) = "" \/ ParseRepo(repo) = NoRepo
    THEN /\ status' = St("invalid", 0, 0, "", <<>>)
         /\ UNCHANGED <<isScanning, duplicates, selectedToDelete, showConfirm, scans>>
    ELSE /\ isScanning' = TRUE
         /\ status' = St("scanning", 0, 0, "", <<>>)
         /\ duplicates' = <<>>
         /\ selectedToDelete' = <<>>
         /\ showConfirm' = FALSE
         /\ scans' = scans + 1

\* What the finished batch leaves behind is forgotten at the next event.
Forget ==
    IF batch.active THEN UNCHANGED <<batch, reqLog>>
    ELSE batch' = NoBatch /\ reqLog' = <<>>

\* The status line after the analysis.
ScanStatus(dupes) ==
    IF Len(dupes) = 0 THEN St("clean", 0, 0, "", <<>>)
    ELSE St("found", Len(dupes), 0, "", <<>>)

\* The form's submit button, enabled unless scanning, deleting or confirming.
SubmitScan ==
    /\ ~(isScanning \/ isDeleting \/ showConfirm)
    /\ scans < MaxScans
    /\ HandleScan(token, repoStr)
    /\ Forget
    /\ UNCHANGED <<remote, token, repoStr, isDeleting, timers, autoScan, memo>>
    /\ UNCHANGED viewerVars

\* The listing arrives: the groups and the default selection are published.
ScanPublish ==
    /\ scans > 0
    /\ scans' = scans - 1
    /\ UNCHANGED <<remote, token, repoStr, isDeleting, showConfirm, timers>>
    /\ UNCHANGED viewerVars
    /\ Forget
    /\ autoScan' = FALSE
    /\ LET files == GetRepoFiles(remote)
           dupes == FindDupes(GroupBySha(files))
       IN  /\ duplicates' = dupes
           /\ selectedToDelete' = MarkRedundant(dupes)
           /\ status' = ScanStatus(dupes)
    /\ isScanning' = FALSE

ScanResolve == ScanPublish /\ UNCHANGED memo

\* The same step, in the specification that remembers an earlier scan: the
\* scan just published may replace the remembered one.
ScanResolveMemo ==
    /\ ScanPublish
    /\ LET same == memo.set /\ memo.listing = GetRepoFiles(remote)
           kept == [memo EXCEPT !.again = @ \/ (same /\ memo.touched)]
           new == [set |-> TRUE, listing |-> GetRepoFiles(remote), dupes |-> duplicates',
                   toDelete |-> selectedToDelete', touched |-> FALSE, again |-> FALSE]
       IN  memo' \in (IF memo.set THEN {kept} ELSE {}) \cup {new}

\* The listing request fails: catch and finally.
ScanReject ==
    /\ scans > 0
    /\ status' = St("scanError", 0, 0, "", <<>>)
    /\ isScanning' = FALSE
    /\ scans' = scans - 1
    /\ autoScan' = FALSE
    /\ Forget
    /\ UNCHANGED <<remote, token, repoStr, duplicates, selectedToDelete, isDeleting,
                   showConfirm, timers, memo>>
    /\ UNCHANGED viewerVars

\* The user edits the token field.
SetToken ==
    /\ \E t \in Tokens \ {token} : token' = t
    /\ Forget
    /\ UNCHANGED <<remote, repoStr, isScanning, duplicates, selectedToDelete, status,
                   isDeleting, showConfirm, scans, timers, autoScan, memo>>
    /\ UNCHANGED viewerVars

\* The user edits the repository field.
SetRepoStr ==
    /\ \E r \in RepoStrs \ {repoStr} : repoStr' = r
    /\ Forget
    /\ UNCHANGED <<remote, token, isScanning, duplicates, selectedToDelete, status,
                   isDeleting, showConfirm, scans, timers, autoScan, memo>>
    /\ UNCHANGED viewerVars

(***************************************************************************)
(* The selection and the confirmation prompt.                              *)
(***************************************************************************)
\* The paths of the members of the groups on display that hold the path.
GroupPaths(path) ==
    UNION {{duplicates[g].files[k].path : k \in 1..Len(duplicates[g].files)} :
             g \in {h \in 1..Len(duplicates) :
                       \E k \in 1..Len(duplicates[h].files) : duplicates[h].files[k].path = path}}

\* An updater that unselects the whole group of the path.
ToggleSet_Group(prev, path) ==
    IF path \in Range(prev) THEN SelectSeq(prev, LAMBDA p : p \notin GroupPaths(path))
    ELSE Append(prev, path)

\* toggleSelection's updater: a copy of prev with the path removed or added.
ToggleSet(prev, path) ==
    IF path \in Range(prev) THEN SelectSeq(prev, LAMBDA p : p # path)
    ELSE Append(prev, path)

\* A view with a row for every file of the directory.
DisplayedPaths_EveryFile == {remote[k].path : k \in 1..Len(remote)}

\* The paths of the member rows on display.
DisplayedPaths ==
    UNION {{duplicates[g].files[k].path : k \in 1..Len(duplicates[g].files)} :
             g \in 1..Len(duplicates)}

\* A click on a member row: ignored while deleting or confirming.
Toggle ==
    /\ ~isDeleting /\ ~showConfirm
    /\ \E path \in DisplayedPaths : selectedToDelete' = ToggleSet(selectedToDelete, path)
    /\ Forget
    /\ MemoTouch
    /\ UNCHANGED <<remote, token, repoStr, isScanning, duplicates, status, isDeleting,
                   showConfirm, scans, timers, autoScan>>
    /\ UNCHANGED viewerVars

\* The "Delete N Duplicates" button of the footer.
ClickDelete ==
    /\ Len(duplicates) > 0 /\ ~showConfirm
    /\ ~isDeleting /\ Len(selectedToDelete) # 0
    /\ showConfirm' = TRUE
    /\ Forget
    /\ UNCHANGED <<remote, token, repoStr, isScanning, duplicates, selectedToDelete,
                   status, isDeleting, scans, timers, autoScan, memo>>
    /\ UNCHANGED viewerVars

\* The "Cancel" button of the confirmation prompt.
CancelConfirm ==
    /\ Len(duplicates) > 0 /\ showConfirm
    /\ ~isDeleting
    /\ showConfirm' = FALSE
    /\ Forget
    /\ UNCHANGED <<remote, token, repoStr, isScanning, duplicates, selectedToDelete,
                   status, isDeleting, scans, timers, autoScan, memo>>
    /\ UNCHANGED viewerVars

(***************************************************************************)
(* executeDelete.                                                          *)
(***************************************************************************)
\* The lookup of a path's sha in the groups of the closure: the first file
\* with that path ends the search, whatever its sha.
RECURSIVE LookupSha(_, _)
LookupSha(dups, path) ==
    IF dups = <<>> THEN ""
    ELSE LET found == SelectSeq(Head(dups).files, LAMBDA f : f.path = path)
         IN  IF found # <<>> THEN Head(found).sha ELSE LookupSha(Tail(dups), path)

\* A loop that passes no path: the path it is at is requested whatever its sha.
RunLoop_NoSkip(b) == b

\* The loop from path i on, up to its next await: a path whose sha is unknown
\* is warned about and passed; the loop stops at a path to request, or at its end.
RECURSIVE RunLoop(_)
RunLoop(b) ==
    IF b.i > Len(b.paths) THEN b
    ELSE IF LookupSha(b.dups, b.paths[b.i]) # "" THEN b
    ELSE RunLoop([b EXCEPT !.i = @ + 1])

\* A loop that does not await: every remaining request is put in flight at once.
RequestsAt_AllAtOnce(b) ==
    LET rest == SelectSeq(SubSeq(b.paths, b.i, Len(b.paths)),
                          LAMBDA p : LookupSha(b.dups, p) # "")
    IN  [k \in 1..Len(rest) |->
            [path |-> rest[k], sha |-> LookupSha(b.dups, rest[k]), outcome |-> "pending"]]

\* The request that the loop, stopped at path i, puts in flight.
RequestsAt(b) ==
    <<[path |-> b.paths[b.i], sha |-> LookupSha(b.dups, b.paths[b.i]), outcome |-> "pending"]>>

\* A success that is not counted.
OnDeleted_NotCounted(b) == [b EXCEPT !.i = @ + 1]

\* After the awaited request succeeded: deletedCount++ and on to the next path.
OnDeleted(b) == [b EXCEPT !.deletedCount = @ + 1, !.i = @ + 1]

\* A catch block outside the loop: the first failure ends the batch.
OnFailed_Abort(b, msg) ==
    [b EXCEPT !.errorCount = @ + 1, !.lastError = ClassifyError(msg), !.i = Len(b.paths) + 1]

\* A catch block that keeps the error of the first failure.
OnFailed_KeepFirst(b, msg) ==
    [b EXCEPT !.errorCount = @ + 1,
              !.lastError = IF @ = "" THEN ClassifyError(msg) ELSE @,
              !.i = @ + 1]

\* The catch block: errorCount++, lastError, and on to the next path.
OnFailed(b, msg) ==
    [b EXCEPT !.errorCount = @ + 1, !.lastError = ClassifyError(msg), !.i = @ + 1]

\* The status line after the loop.
FinishStatus(b) ==
    IF b.errorCount > 0
    THEN St("partial", b.deletedCount, b.errorCount, b.lastError, <<>>)
    ELSE St("complete", b.deletedCount, 0, "", <<>>)

\* The rescan timer, set only after a batch without errors; its callback calls
\* the handleScan of the closure executeDelete ran in.
RescanTimers(b, ts) ==
    IF b.errorCount = 0 THEN Append(ts, [token |-> b.token, repoStr |-> b.repoStr])
    ELSE ts

\* executeDelete from batch state b0 to its next await or to its end.
Continue(b0, log) ==
    LET b == RunLoop(b0)
    IN  IF b.i > Len(b.paths)
        THEN /\ status' = FinishStatus(b)
             /\ isDeleting' = FALSE
             /\ showConfirm' = FALSE
             /\ timers' = RescanTimers(b, timers)
             /\ autoScan' = FALSE
             /\ batch' = [b EXCEPT !.active = FALSE]
             /\ reqLog' = log
        ELSE /\ status' = St("deleting", b.deletedCount + 1, Len(b.paths), "",
                             FileNameOf(b.paths[b.i]))
             /\ isDeleting' = TRUE
             /\ batch' = b
             /\ reqLog' = log \o RequestsAt(b)
             /\ UNCHANGED <<showConfirm, timers, autoScan>>

\* The "Yes, Delete" button of the confirmation prompt.
ExecuteDelete ==
    /\ Len(duplicates) > 0 /\ showConfirm
    /\ ~isDeleting
    /\ Len(timers) < MaxTimers
    /\ IF Len(selectedToDelete) = 0
       THEN UNCHANGED <<status, isDeleting, showConfirm, timers, batch, reqLog, autoScan>>
       ELSE IF ParseRepo(repoStr) = NoRepo
       THEN /\ status' = St("badRepo", 0, 0, "", <<>>)
            /\ isDeleting' = FALSE
            /\ batch' = NoBatch /\ reqLog' = <<>>
            /\ UNCHANGED <<showConfirm, timers, autoScan>>
       ELSE Continue([active |-> TRUE, paths |-> selectedToDelete, dups |-> duplicates,
                      i |-> 1, deletedCount |-> 0, errorCount |-> 0, lastError |-> "",
                      token |-> Trim(token), repoStr |-> repoStr,
                      untouched |-> memo.set /\ ~memo.touched], <<>>)
    /\ MemoTouch
    /\ UNCHANGED <<remote, token, repoStr, isScanning, duplicates, selectedToDelete, scans>>
    /\ UNCHANGED viewerVars

\* The entries left once the file at path is gone.
RemoveFile(dir, path) == SelectSeq(dir, LAMBDA e : e.path # path)

\* The server accepts a delete request: right token, and the file is there
\* with the sha the request names.
ServerAccepts(req, tok) ==
    /\ tok # ""
    /\ \E k \in 1..Len(remote) : remote[k].path = req.path /\ remote[k].sha = req.sha

\* deleteFileFromGitHub resolves: the file is gone, the loop goes on.
DeleteResolve ==
    /\ batch.active
    /\ \E k \in 1..Len(reqLog) :
         /\ reqLog[k].outcome = "pending"
         /\ ServerAccepts(reqLog[k], batch.token)
         /\ remote' = RemoveFile(remote, reqLog[k].path)
         /\ Continue(OnDeleted(batch), [reqLog EXCEPT ![k].outcome = "ok"])
    /\ UNCHANGED <<token, repoStr, isScanning, duplicates, selectedToDelete, scans, memo>>
    /\ UNCHANGED viewerVars

\* deleteFileFromGitHub rejects (the response is not ok, or fetch failed).
DeleteRejectWith(msg) ==
    /\ batch.active
    /\ \E k \in 1..Len(reqLog) :
         /\ reqLog[k].outcome = "pending"
         /\ Continue(OnFailed(batch, msg), [reqLog EXCEPT ![k].outcome = "failed"])
    /\ UNCHANGED <<remote, token, repoStr, isScanning, duplicates, selectedToDelete,
                   scans, memo>>
    /\ UNCHANGED viewerVars

DeleteReject == \E msg \in Msgs : DeleteRejectWith(msg)

\* A rescan timer expires: timers of equal delay fire in the order they were set.
TimerFire ==
    /\ timers # <<>>
    /\ scans < MaxScans
    /\ HandleScan(Head(timers).token, Head(timers).repoStr)
    /\ timers' = Tail(timers)
    /\ autoScan' = (autoScan \/ scans' > scans)
    /\ Forget
    /\ UNCHANGED <<remote, token, repoStr, isDeleting, memo>>
    /\ UNCHANGED viewerVars

(***************************************************************************)
(* The scene viewer: BabylonScene.                                         *)
(* A program is the sequence of the statements of the generated code that  *)
(* matter to the component: the program creates a camera, a light or a     *)
(* mesh on the scene it is handed, awaits, or throws: an Error, or a value  *)
(* that is no object (throw null, a promise rejected without a reason).    *)
(***************************************************************************)
\* A code text that new Function rejects (a SyntaxError).
SyntaxError == <<"syntax error">>

\* The code prop's values: '' and some programs.
NoCode == <<>>

\* A program whose body has no statement: a comment, or blanks.
EmptyBody == <<"noop">>

Programs ==
    { <<"camera", "light", "mesh">>,
      <<"mesh", "throw">>,
      <<"throw">>,
      <<"await", "mesh">>,
      <<"light", "await", "throw">>,
      <<"throw null">>,
      <<"mesh", "await", "throw null">>,
      EmptyBody,
      SyntaxError }

\* new BABYLON.Scene(engine): no camera, no light, no mesh.
NewScene == [disposed |-> FALSE, activeCamera |-> "", cameras |-> 0, lights |-> 0, meshes |-> 0]

\* The initial default scene: "Camera" and "light".
DefaultScene == [NewScene EXCEPT !.activeCamera = "Camera", !.cameras = 1, !.lights = 1]

NoStart == [set |-> FALSE, scene |-> 0, ref |-> 0, fresh |-> FALSE, prevReleased |-> FALSE]

\* How the execution on a scene ended: "none" (no program was run on it),
\* "running", "returned", or "threw" with the value thrown and the number of
\* meshes the scene had when the catch block was entered.
Result(kind, thrown, meshesAt) ==
    [kind |-> kind, thrown |-> thrown, meshesAt |-> meshesAt, program |-> NoCode]

\* The result, with the program of the execution it is the result of.
Of(result, p) == [result EXCEPT !.program = p]

NoResult == Result("none", "", 0)

\* One statement of a program on its scene: the first camera of a scene
\* becomes its activeCamera.
Statement(sc, st) ==
    IF st = "camera" THEN [sc EXCEPT !.activeCamera = IF @ = "" THEN "user" ELSE @,
                                     !.cameras = @ + 1]
    ELSE IF st = "light" THEN [sc EXCEPT !.lights = @ + 1]
    ELSE IF st = "mesh" THEN [sc EXCEPT !.meshes = @ + 1]
    ELSE sc

\* The program from its next statement to its end, its next await or its throw.
RECURSIVE Execute(_, _)
Execute(sc, prog) ==
    IF prog = <<>> THEN [scene |-> sc, outcome |-> "done", thrown |-> "", rest |-> <<>>]
    ELSE IF Head(prog) = "throw"
    THEN [scene |-> sc, outcome |-> "threw", thrown |-> "Error", rest |-> <<>>]
    ELSE IF Head(prog) = "throw null"
    THEN [scene |-> sc, outcome |-> "threw", thrown |-> "null", rest |-> <<>>]
    ELSE IF Head(prog) = "await"
    THEN [scene |-> sc, outcome |-> "await", thrown |-> "", rest |-> Tail(prog)]
    ELSE Execute(Statement(sc, Head(prog)), Tail(prog))

\* A step 4 that adds its camera and its light whatever the scene holds.
Fallbacks_Always(sc) ==
    [sc EXCEPT !.activeCamera = IF @ = "" THEN "FallbackCamera" ELSE @,
               !.cameras = @ + 1, !.lights = @ + 1]

\* Step 4, after the program returned: the camera and the light fallback.
Fallbacks(sc) ==
    LET cam == IF sc.activeCamera = ""
               THEN [sc EXCEPT !.activeCamera = "FallbackCamera", !.cameras = @ + 1]
               ELSE sc
    IN  IF cam.lights = 0 THEN [cam EXCEPT !.lights = 1] ELSE cam

\* The catch block: the ErrorBox, and the ErrorCam, only on a scene without meshes.
ErrorFallback(sc) ==
    IF sc.meshes = 0
    THEN [sc EXCEPT !.meshes = 1,
                    !.cameras = IF sc.activeCamera = "" THEN @ + 1 ELSE @,
                    !.activeCamera = IF @ = "" THEN "ErrorCam" ELSE @]
    ELSE sc

\* addLog, as wired to onLog and onError by the tab: the entry is put in front;
\* a state update of a component that is no longer mounted is dropped.
AddLog(lg, type, msg) ==
    IF engine = "disposed" THEN lg ELSE <<[type |-> type, msg |-> msg]>> \o lg

\* e.message in the catch block: reading a property of null or undefined
\* throws a TypeError; of any other value it does not.
MessageReadable(thrown) == thrown # "null"

\* runUserCode after the program ran up to r: the scene it leaves, the
\* callback it makes and the suspended execution it leaves, if any.  In the
\* catch block onError comes first; where its argument cannot be built the
\* block is left at once and the promise of runUserCode is rejected.
Settle(k, r, scs, susp, res, lg) ==
    IF r.outcome = "await"
    THEN /\ scenes' = [scs EXCEPT ![k] = r.scene]
         /\ runs' = susp \cup {[scene |-> k, rest |-> r.rest]}
         /\ results' = [res EXCEPT ![k] = Of(Result("running", "", 0), @.program)]
         /\ logs' = lg
         /\ UNCHANGED <<notice, unhandled>>
    ELSE IF r.outcome = "done"
    THEN /\ scenes' = [scs EXCEPT ![k] = Fallbacks(r.scene)]
         /\ runs' = susp
         /\ results' = [res EXCEPT ![k] = Of(Result("returned", "", 0), @.program)]
         /\ notice' = "updated"
         /\ logs' = AddLog(lg, "info", "updated")
         /\ UNCHANGED unhandled
    ELSE /\ runs' = susp
         /\ results' = [res EXCEPT ![k] = Of(Result("threw", r.thrown, r.scene.meshes), @.program)]
         /\ IF MessageReadable(r.thrown)
            THEN /\ notice' = "runtimeError"
                 /\ logs' = AddLog(lg, "error", "runtimeError")
                 /\ scenes' = [scs EXCEPT ![k] = ErrorFallback(r.scene)]
                 /\ UNCHANGED unhandled
            ELSE /\ scenes' = [scs EXCEPT ![k] = r.scene]
                 /\ unhandled' = TRUE
                 /\ logs' = lg
                 /\ UNCHANGED notice

\* A runUserCode that leaves the old scene as it is.
DisposeOld_Skip(scs, ref) == scs

\* if (sceneRef.current) sceneRef.current.dispose()
DisposeOld(scs, ref) ==
    IF ref # 0 THEN [scs EXCEPT ![ref].disposed = TRUE] ELSE scs

\* A runUserCode that forgets the swap: the ref keeps the scene just disposed.
RefAtStart_Old(ref, new) == ref

\* sceneRef.current = newScene, before the try block.
RefAtStart(ref, new) == new

\* The synchronous part of runUserCode for program p: steps 1 and 2, then the
\* program up to its first await, and what follows if it has none.
RunUserCode(p, lg) ==
    LET new == Len(scenes) + 1
        created == Append(scenes, NewScene)
        released == DisposeOld(created, sceneRef)
        ref == RefAtStart(sceneRef, new)
        r == IF p = SyntaxError
             THEN [scene |-> released[new], outcome |-> "threw", thrown |-> "Error",
                   rest |-> <<>>]
             ELSE Execute(released[new], p)
    IN  /\ Len(scenes) < MaxScenes
        /\ sceneRef' = ref
        /\ started' = IF p = SyntaxError THEN started
                      ELSE [set |-> TRUE, scene |-> new, ref |-> ref,
                            fresh |-> released[new] = NewScene /\ new \notin DOMAIN scenes,
                            prevReleased |-> sceneRef = 0 \/ released[sceneRef].disposed]
        /\ Settle(new, r, released, runs, Append(results, Of(NoResult, p)), lg)

\* The effect of [code] after a render with code p: nothing without an engine
\* or for the empty code, nothing where the code did not change.
CodeEffect(p, lg) ==
    IF engine = "none" \/ p = NoCode \/ p = code
    THEN /\ logs' = lg
         /\ UNCHANGED <<scenes, sceneRef, runs, notice, started, results, unhandled>>
    ELSE RunUserCode(p, lg)

\* The parent renders the component with another code: the effect of [code].
SetCode ==
    /\ engine # "disposed"
    /\ \E p \in (Programs \cup {NoCode}) \ {code} :
         /\ code' = p
         /\ CodeEffect(p, logs)
    /\ UNCHANGED <<engine, lastRendered, frames>>
    /\ UNCHANGED <<prompt, isGenerating, gens, origin>>
    /\ UNCHANGED dialogVars

\* An execution that goes on with the scene sceneRef holds when it resumes.
SceneOf_Current(run) == sceneRef

\* The scene of a suspended execution: the newScene of its closure.
SceneOf(run) == run.scene

\* The promise a program awaits is settled: the execution goes on, on the
\* scene it was started with.
Resume ==
    /\ \E run \in runs :
         Settle(SceneOf(run), Execute(scenes[SceneOf(run)], run.rest), scenes, runs \ {run},
                results, logs)
    /\ UNCHANGED <<engine, sceneRef, code, lastRendered, started, frames>>
    /\ UNCHANGED <<prompt, isGenerating, gens, origin>>
    /\ UNCHANGED dialogVars

\* A render callback that draws the scene of the closure that started the
\* loop: the default scene.
FrameScene_Closure(ref, first) == first

\* The scene a frame draws: sceneRef.current, read when the frame runs.
FrameScene(ref, first) == ref

\* A frame of the render loop: if (sceneRef.current) sceneRef.current.render().
\* The loop runs from the first effect to its cleanup, whatever is in flight.
RenderFrame ==
    /\ engine = "running"
    /\ sceneRef # 0
    /\ lastRendered' = FrameScene(sceneRef, 1)
    /\ frames' = 1 - frames
    /\ UNCHANGED <<engine, scenes, sceneRef, code, runs, notice, started, results,
                   unhandled>>
    /\ UNCHANGED tabVars
    /\ UNCHANGED dialogVars

\* The cleanup of the first effect, at unmount.
Unmount ==
    /\ engine = "running"
    /\ engine' = "disposed"
    /\ scenes' = DisposeOld(scenes, sceneRef)
    /\ UNCHANGED <<sceneRef, code, runs, notice, lastRendered, started, results,
                   unhandled, frames>>
    /\ UNCHANGED tabVars
    /\ UNCHANGED dialogVars

(***************************************************************************)
(* The visualizer tab: VisualizerTab, with generateSceneCode of the        *)
(* generation service.                                                     *)
(***************************************************************************)
\* The prompt a loaded configuration file is turned into: never blank.
ConfigPrompt == "mode"

\* The texts of the prompt field: the default, a blank one, a config's.
PromptTexts == {"rain", " ", ConfigPrompt}

\* promptText.trim()
TrimPrompt(p) == IF p = " " THEN "" ELSE p

\* The files the user may load: a configuration, presets, a preset without
\* code and a file that is no JSON.
Files ==
    {[kind |-> "config", code |-> NoCode, prompt |-> ""]}
        \cup {[kind |-> "preset", code |-> p, prompt |-> q] :
                 p \in {NoCode, <<"camera", "light", "mesh">>, <<"throw">>},
                 q \in {"", "rain"}}
        \cup {[kind |-> "invalid", code |-> NoCode, prompt |-> ""]}

\* The sequence without its k-th element.
RemoveAt(seq, k) == SubSeq(seq, 1, k - 1) \o SubSeq(seq, k + 1, Len(seq))

\* The calls left in flight once the k-th resolved: the older ones are overtaken.
Overtake(gs, k) ==
    [j \in 1..(Len(gs) - 1) |->
        IF j < k THEN [gs[j] EXCEPT !.overtaken = TRUE] ELSE gs[j + 1]]

NoOrigin == [prompt |-> "", overtaken |-> FALSE]

\* generate(promptText) up to its await: nothing for a blank prompt.
Generate(promptText, lg) ==
    IF TrimPrompt(promptText) = ""
    THEN /\ logs' = lg
         /\ UNCHANGED <<isGenerating, gens>>
    ELSE /\ isGenerating' = TRUE
         /\ logs' = AddLog(lg, "info", "generating")
         /\ gens' = Append(gens, [prompt |-> promptText, overtaken |-> FALSE])

\* The user edits the prompt field.
SetPrompt ==
    /\ engine # "disposed"
    /\ \E p \in PromptTexts \ {prompt} : prompt' = p
    /\ UNCHANGED <<logs, isGenerating, gens, origin>>
    /\ UNCHANGED sceneVars
    /\ UNCHANGED dialogVars

\* The form's submit button, disabled while isGenerating: handleGenerate.
HandleGenerate ==
    /\ engine # "disposed"
    /\ ~isGenerating
    /\ Len(gens) < MaxGens /\ Len(logs) < MaxLogs
    /\ Generate(prompt, logs)
    /\ UNCHANGED <<prompt, origin>>
    /\ UNCHANGED sceneVars
    /\ UNCHANGED dialogVars

\* A generate that drops the result of a call a later call has overtaken.
Publish_LatestOnly(call, text, held) == IF call.overtaken THEN held ELSE text

\* setCode(generatedCode): the code state after a call resolved with the text.
Publish(call, text, held) == text

\* generateSceneCode resolves with the text of the response, '' when the
\* response has none: setCode, the log entry, finally; then the effect of [code].
GenResolveWith(k, text) ==
    /\ k \in 1..Len(gens)
    /\ gens' = Overtake(gens, k)
    /\ IF engine = "disposed"
       THEN UNCHANGED <<code, isGenerating, logs, scenes, sceneRef, runs, notice,
                        started, results, unhandled, origin>>
       ELSE /\ code' = Publish(gens[k], text, code)
            /\ origin' = IF code' = text THEN gens[k] ELSE origin
            /\ isGenerating' = FALSE
            /\ CodeEffect(code', AddLog(logs, "info", "generated"))
    /\ UNCHANGED <<prompt, engine, lastRendered, frames>>
    /\ UNCHANGED dialogVars

GenResolve == \E k \in 1..Len(gens), text \in Programs \cup {NoCode} : GenResolveWith(k, text)

\* generateSceneCode rejects: the catch block and finally.
GenReject ==
    /\ \E k \in 1..Len(gens) : gens' = RemoveAt(gens, k)
    /\ logs' = AddLog(logs, "error", "genFailed")
    /\ isGenerating' = IF engine = "disposed" THEN isGenerating ELSE FALSE
    /\ UNCHANGED <<prompt, origin>>
    /\ UNCHANGED sceneVars
    /\ UNCHANGED dialogVars

\* reader.onload of handleImport: a configuration sets the prompt and
\* generates at once; a preset sets code and prompt; anything else is refused.
ImportFile ==
    /\ engine # "disposed"
    /\ Len(logs) < MaxLogs
    /\ \E f \in Files :
         IF f.kind = "config"
         THEN /\ Len(gens) < MaxGens
              /\ prompt' = ConfigPrompt
              /\ Generate(ConfigPrompt, AddLog(logs, "info", "configLoaded"))
              /\ UNCHANGED <<code, scenes, sceneRef, runs, notice, started, results,
                             unhandled, origin>>
         ELSE IF f.kind = "preset" /\ f.code # NoCode
         THEN /\ code' = f.code
              /\ prompt' = f.prompt
              /\ origin' = [prompt |-> f.prompt, overtaken |-> FALSE]
              /\ CodeEffect(f.code, AddLog(logs, "info", "presetLoaded"))
              /\ UNCHANGED <<isGenerating, gens>>
         ELSE /\ logs' = AddLog(logs, "error", "loadFailed")
              /\ UNCHANGED <<prompt, isGenerating, gens, origin, code, scenes, sceneRef,
                             runs, notice, started, results, unhandled>>
    /\ UNCHANGED <<engine, lastRendered, frames>>
    /\ UNCHANGED dialogVars

\* The preset handleExport writes to the downloaded file.
Preset == [name |-> "Visualizer Preset", prompt |-> prompt, code |-> code]

\* The "Save" button, disabled without code: handleExport downloads the
\* preset and logs it.
HandleExport ==
    /\ engine # "disposed"
    /\ code # NoCode
    /\ Len(logs) < MaxLogs
    /\ logs' = AddLog(logs, "info", "exported")
    /\ UNCHANGED <<prompt, isGenerating, gens, origin>>
    /\ UNCHANGED sceneVars
    /\ UNCHANGED dialogVars

\* The component after its first render and the first effect: the engine and
\* the default scene, or nothing where BABYLON is not loaded.
SceneMounted(engines) ==
    /\ engine \in engines
    /\ scenes = IF engine = "none" THEN <<>> ELSE <<DefaultScene>>
    /\ sceneRef = IF engine = "none" THEN 0 ELSE 1
    /\ code = NoCode
    /\ runs = {}
    /\ notice = IF engine = "none" THEN "loadError" ELSE "none"
    /\ lastRendered = 0
    /\ started = NoStart
    /\ results = IF engine = "none" THEN <<>> ELSE <<NoResult>>
    /\ unhandled = FALSE
    /\ frames = 0
    /\ prompt = "rain"
    /\ logs = IF engine = "none" THEN <<[type |-> "error", msg |-> "loadError"]>> ELSE <<>>
    /\ isGenerating = FALSE
    /\ gens = <<>>
    /\ origin = NoOrigin

(***************************************************************************)
(* The directories the model starts from.                                  *)
(***************************************************************************)
NameIndex(name) == CHOOSE k \in 1..Len(Names) : Names[k] = name

\* The entries a directory of the pure scan specification may hold: images
\* with any sha value, and one entry that is no image.
ScanEntries ==
    {Entry(Names[k], s, TRUE) : k \in {1, 2, 4, 5, 6}, s \in ShaValues}
        \cup {Entry(Names[k], "s1", FALSE) : k \in {1, 2, 4, 5, 6}}

\* The entries a directory of the dialog specification may hold.
DialogEntries == {Entry(Names[k], s, TRUE) : k \in 1..4, s \in ShaValues}

\* The directories of at most n entries with distinct names, in any order.
DirsUpTo(E, n) ==
    UNION {{d \in [1..m -> E] : \A j, k \in 1..m : j # k => d[j].name # d[k].name} :
             m \in 0..n}

\* Those listed in the order of Names.
SortedDirsUpTo(E, n) ==
    UNION {{d \in [1..m -> E] :
              \A j, k \in 1..m : j < k => NameIndex(d[j].name) < NameIndex(d[k].name)} :
             m \in 0..n}

ScanDirs == DirsUpTo(ScanEntries, MaxListing)

DialogDirs == SortedDirsUpTo(DialogEntries, MaxFiles)

(***************************************************************************)
(* Specifications.                                                         *)
(***************************************************************************)
vars == <<dialogVars, sceneVars, tabVars>>

\* The dialog as constructed (the useState initial values), over a directory.
DialogInit(dirs) ==
    /\ remote \in dirs
    /\ token = ""
    /\ repoStr = <<"o", "/", "r">>
    /\ isScanning = FALSE
    /\ duplicates = <<>>
    /\ selectedToDelete = <<>>
    /\ status = NoStatus
    /\ isDeleting = FALSE
    /\ showConfirm = FALSE
    /\ scans = 0
    /\ batch = NoBatch
    /\ reqLog = <<>>
    /\ timers = <<>>
    /\ autoScan = FALSE
    /\ memo = NoMemo
    /\ SceneMounted({"running"})

Init == DialogInit(DialogDirs)

Next ==
    \/ SubmitScan
    \/ ScanResolve
    \/ ScanReject
    \/ SetToken
    \/ SetRepoStr
    \/ Toggle
    \/ ClickDelete
    \/ CancelConfirm
    \/ ExecuteDelete
    \/ DeleteResolve
    \/ DeleteReject
    \/ TimerFire

\* The cleanup dialog.
Spec == Init /\ [][Next]_vars

ScanInit == DialogInit(ScanDirs)

ScanNext ==
    \/ SetToken
    \/ SubmitScan
    \/ ScanResolve
    \/ ScanReject

\* handleScan alone, with the token field, over directories in any order.
ScanSpec == ScanInit /\ [][ScanNext]_vars

\* The directories of the specifications that carry more history.
SmallEntries == {Entry(Names[k], s, TRUE) : k \in 1..3, s \in {"s1", NoSha}}

SmallDirs == SortedDirsUpTo(SmallEntries, MaxFiles)

MemoInit == DialogInit(SmallDirs)

MemoNext ==
    \/ SubmitScan
    \/ ScanResolveMemo
    \/ ScanReject
    \/ SetToken
    \/ SetRepoStr
    \/ Toggle
    \/ ClickDelete
    \/ CancelConfirm
    \/ ExecuteDelete
    \/ DeleteResolve
    \/ DeleteReject
    \/ TimerFire

\* The dialog, remembering one earlier scan to compare later scans with.
MemoSpec == MemoInit /\ [][MemoNext]_vars

\* The scene viewer beside a dialog that is not used.
SceneInit ==
    /\ remote = <<>>
    /\ token = ""
    /\ repoStr = <<"o", "/", "r">>
    /\ isScanning = FALSE
    /\ duplicates = <<>>
    /\ selectedToDelete = <<>>
    /\ status = NoStatus
    /\ isDeleting = FALSE
    /\ showConfirm = FALSE
    /\ scans = 0
    /\ batch = NoBatch
    /\ reqLog = <<>>
    /\ timers = <<>>
    /\ autoScan = FALSE
    /\ memo = NoMemo
    /\ SceneMounted({"none", "running"})

SceneNext ==
    \/ SetCode
    \/ Resume
    \/ RenderFrame
    \/ Unmount

SceneSpec == SceneInit /\ [][SceneNext]_vars

FairDirs == SortedDirsUpTo(SmallEntries, 2)

FairInit == DialogInit(FairDirs)

\* Directories of MaxSkipFiles entries, each with the sha "s1" or with none.
SkipEntries == {Entry(Names[k], s, TRUE) : k \in 1..MaxSkipFiles, s \in {"s1", NoSha}}

SkipDirs == {d \in SortedDirsUpTo(SkipEntries, MaxSkipFiles) : Len(d) = MaxSkipFiles}

SkipInit == DialogInit(SkipDirs)

SkipNext ==
    \/ SetToken
    \/ SubmitScan
    \/ ScanResolve
    \/ ScanReject
    \/ ClickDelete
    \/ CancelConfirm
    \/ ExecuteDelete
    \/ DeleteResolve
    \/ DeleteReject
    \/ TimerFire

\* The dialog, deleting the default selection, over listings in which entries
\* without sha sit beside duplicates.
SkipSpec == SkipInit /\ [][SkipNext]_vars

VisualizerNext ==
    \/ SetPrompt
    \/ HandleGenerate
    \/ GenResolve
    \/ GenReject
    \/ ImportFile
    \/ HandleExport
    \/ Resume
    \/ RenderFrame
    \/ Unmount

\* The visualizer tab with its viewer.
VisualizerSpec == SceneInit /\ [][VisualizerNext]_vars

\* The dialog with what the browser guarantees: a timer that was set expires,
\* and a request in flight is answered.
FairSpec ==
    /\ FairInit
    /\ [][Next]_vars
    /\ SF_vars(TimerFire)
    /\ WF_vars(ScanReject \/ ScanResolve)
    /\ WF_vars(DeleteReject \/ DeleteResolve)

(***************************************************************************)
(* Properties of handleScan (checked under ScanSpec, where the directory   *)
(* does not change, so the listing of every scan is GetRepoFiles(remote)). *)
(***************************************************************************)
\* The last thing that happened is a scan whose listing arrived.
ScanDone == status.kind \in {"found", "clean"}

\* The positions of the listing that carry sha s.
WithSha(files, s) == {k \in 1..Len(files) : files[k].sha = s}

\* The first of them.
FirstWithSha(files, s) ==
    CHOOSE k \in WithSha(files, s) : \A j \in WithSha(files, s) : k <= j

\* C1: after a successful scan there is exactly one group for every sha value
\* that two or more listed files carry (a missing sha is one value, the Map's
\* key undefined), each group holds all and only the listed files of its sha,
\* no group exists for a sha that a single file carries, the groups are in the
\* order in which their sha first occurs in the listing, and a listing of
\* pairwise distinct shas gives no group, an empty selection and the
\* 'no duplicates' status.
C1_GroupsPerSha ==
    ScanDone =>
        LET files == GetRepoFiles(remote)
        IN  /\ \A s \in ShaValues :
                 Cardinality(WithSha(files, s)) >= 2 =>
                     Cardinality({g \in 1..Len(duplicates) : duplicates[g].sha = s}) = 1
            /\ \A g \in 1..Len(duplicates) :
                 /\ Cardinality(WithSha(files, duplicates[g].sha)) >= 2
                 /\ Range(duplicates[g].files) =
                        {files[k] : k \in WithSha(files, duplicates[g].sha)}
                 /\ Len(duplicates[g].files) = Cardinality(WithSha(files, duplicates[g].sha))
            /\ \A g, h \in 1..Len(duplicates) :
                 g < h => FirstWithSha(files, duplicates[g].sha)
                              < FirstWithSha(files, duplicates[h].sha)
            /\ (\A s \in ShaValues : Cardinality(WithSha(files, s)) <= 1) =>
                   /\ duplicates = <<>>
                   /\ selectedToDelete = <<>>
                   /\ status.kind = "clean"

\* Two groups were found in a listing that interleaves them, the one of sha s2
\* first because s2 occurs first in the listing.
C1_Witness ==
    /\ ScanDone
    /\ Len(duplicates) = 2
    /\ duplicates[1].sha = "s2" /\ duplicates[2].sha = "s1"
    /\ Len(remote) = 4
    /\ remote[1].sha = "s2" /\ remote[2].sha = "s1" /\ remote[3].sha = "s2"

\* a comes before b: shorter, or of the same length and alphabetically smaller.
NameBefore(a, b) ==
    \/ Len(a) < Len(b)
    \/ /\ Len(a) = Len(b)
       /\ \E i \in 1..Len(a) : a[i] < b[i] /\ \A j \in 1..(i - 1) : a[j] = b[j]

\* C2: in every group of a scan the members are in ascending order of name
\* length and, among names of one length, in alphabetical order; so the member
\* at index 0, the one kept, has the shortest name, the alphabetically smallest
\* among the shortest.
C2_MembersOrdered ==
    ScanDone =>
        \A g \in 1..Len(duplicates) :
            LET fs == duplicates[g].files
            IN  /\ \A j, k \in 1..Len(fs) : j < k => NameBefore(fs[j].name, fs[k].name)
                /\ \A k \in 2..Len(fs) : NameBefore(fs[1].name, fs[k].name)

\* A group of three listed longest name first, then "b", then "a": "a" is kept
\* ('a.png' among img.png, image.png; 'aaa.png' before 'bbb.png').
C2_Witness ==
    /\ ScanDone
    /\ Len(remote) = 3
    /\ remote[1].name = <<1, 1, 1>> /\ remote[2].name = <<2>> /\ remote[3].name = <<1>>
    /\ Len(duplicates) = 1
    /\ Len(duplicates[1].files) = 3
    /\ duplicates[1].files[1].name = <<1>>
    /\ duplicates[1].files[2].name = <<2>>

\* The paths of the members at index 1 and above of every group.
RedundantPaths(dups) ==
    UNION {{dups[g].files[k].path : k \in 2..Len(dups[g].files)} : g \in 1..Len(dups)}

\* C3: right after a successful scan the selection is exactly the set of the
\* paths of the members at index 1 and above of every group: no keep member,
\* and nothing that is no member.
C3_DefaultSelection ==
    ScanDone =>
        /\ Range(selectedToDelete) = RedundantPaths(duplicates)
        /\ Cardinality(Range(selectedToDelete)) = Len(selectedToDelete)
        /\ \A g \in 1..Len(duplicates) :
             duplicates[g].files[1].path \notin Range(selectedToDelete)

\* Two groups of two: one path of each is selected.
C3_Witness ==
    /\ ScanDone
    /\ Len(duplicates) = 2
    /\ Len(selectedToDelete) = 2
    /\ selectedToDelete[1] = duplicates[1].files[2].path
    /\ selectedToDelete[2] = duplicates[2].files[2].path

(***************************************************************************)
(* Properties of the dialog.                                               *)
(***************************************************************************)
\* C4: a scan that receives the listing an earlier scan received publishes
\* the groups and the selection that scan published, whatever scans, toggles
\* and batches came in between (checked under MemoSpec, which remembers an
\* earlier scan, any one of them).
C4_SameListingSameResult ==
    [][(ScanPublish /\ memo.set /\ memo.listing = GetRepoFiles(remote))
          => (duplicates' = memo.dupes /\ selectedToDelete' = memo.toDelete)]_vars

\* A scan has received the remembered listing again after the user toggled
\* the selection or ran a batch, and found duplicates.
C4_Witness ==
    /\ memo.set /\ memo.again
    /\ memo.dupes # <<>>
    /\ status.kind = "found"

\* The state right after a batch ended: its locals and its requests are still known.
BatchDone == ~batch.active /\ batch.paths # <<>>

\* The batch knows a sha for the path.
Known(b, path) == LookupSha(b.dups, path) # NoSha

\* The requests of the log with the outcome.
WithOutcome(o) == {k \in 1..Len(reqLog) : reqLog[k].outcome = o}

\* C5: when a batch has ended, every path of its selection whose sha is known
\* has had its delete request issued, however many requests failed and
\* wherever they failed.
C5_BestEffort ==
    BatchDone =>
        \A i \in 1..Len(batch.paths) :
            Known(batch, batch.paths[i]) =>
                \E k \in 1..Len(reqLog) : reqLog[k].path = batch.paths[i]

\* A batch of three requests ended; the first two failed and the third was
\* still issued, and succeeded.
C5_Witness ==
    /\ BatchDone
    /\ Len(reqLog) = 3
    /\ reqLog[1].outcome = "failed" /\ reqLog[2].outcome = "failed"
    /\ reqLog[3].outcome = "ok"

\* C6: when a batch has ended, the reported deleted count is the number of
\* requests that succeeded, the reported failed count the number that failed,
\* and deleted + failed + skipped (paths of unknown sha) is the size of the
\* selection at the start of the batch.
C6_Tally ==
    BatchDone =>
        /\ status.kind \in {"partial", "complete"}
        /\ status.n = Cardinality(WithOutcome("ok"))
        /\ status.m = Cardinality(WithOutcome("failed"))
        /\ (status.kind = "partial") = (Cardinality(WithOutcome("failed")) > 0)
        /\ status.n + status.m
             + Cardinality({i \in 1..Len(batch.paths) : ~Known(batch, batch.paths[i])})
           = Len(batch.paths)

\* Request 2 of 3 failed: deleted = 2, failed = 1.
C6_Witness ==
    /\ BatchDone
    /\ Len(batch.paths) = 3 /\ Len(reqLog) = 3
    /\ reqLog[1].outcome = "ok" /\ reqLog[2].outcome = "failed" /\ reqLog[3].outcome = "ok"
    /\ status.kind = "partial" /\ status.n = 2 /\ status.m = 1

\* C7: after a batch ended with a failed request (the status line
\* still reports it), nothing but the user, by a scan or a toggle, changes the
\* groups or the selection, and no listing request is issued.
C7_StaleViewKept ==
    [][(status.kind = "partial" /\ ~SubmitScan /\ ~Toggle)
          => (duplicates' = duplicates /\ selectedToDelete' = selectedToDelete
              /\ scans' = scans)]_vars

\* C8: a batch that ended without a failed request is followed by a scan that
\* a timer starts (checked under FairSpec: timers expire, requests are answered).
C8_RescanAfterCleanBatch == (status.kind = "complete") ~> autoScan

\* C9: the requests of a batch are issued one at a time in the order of the
\* selection: the paths requested so far are the paths of known sha up to the
\* loop's position, in that order and once each; only the last request can be
\* awaiting its response, so at most one is in flight.
C9_Sequential ==
    (batch.active \/ BatchDone) =>
        LET upto == IF batch.active THEN batch.i ELSE Len(batch.paths)
            due == SelectSeq(SubSeq(batch.paths, 1, upto), LAMBDA p : Known(batch, p))
        IN  /\ Len(reqLog) = Len(due)
            /\ \A k \in 1..Len(reqLog) : reqLog[k].path = due[k]
            /\ \A j, k \in 1..Len(reqLog) : j # k => reqLog[j].path # reqLog[k].path
            /\ \A k \in 1..(Len(reqLog) - 1) : reqLog[k].outcome # "pending"
            /\ Cardinality(WithOutcome("pending")) <= 1

\* The third request of a batch is in flight after the first failed, in a
\* selection whose order the user's toggles made (the keep member comes last).
C9_Witness ==
    /\ batch.active
    /\ Len(reqLog) = 3
    /\ reqLog[1].outcome = "failed" /\ reqLog[2].outcome = "ok"
    /\ reqLog[3].outcome = "pending"
    /\ reqLog[3].path = batch.dups[1].files[1].path

(***************************************************************************)
(* Properties of the scene viewer (checked under SceneSpec).               *)
(***************************************************************************)
\* C10: every scene but the one sceneRef holds has been disposed, so at most
\* one scene is alive and every scene that was active earlier is released;
\* and when the text of a program began to run, its scene was a new, empty
\* one, sceneRef held it already, and the scene active before was disposed.
C10_OneSceneAlive ==
    /\ \A k \in 1..Len(scenes) : k # sceneRef => scenes[k].disposed
    /\ Cardinality({k \in 1..Len(scenes) : ~scenes[k].disposed}) <= 1
    /\ started.set =>
          /\ started.fresh
          /\ started.ref = started.scene
          /\ started.prevReleased

\* The third program runs on the fourth scene, now the active one, while an
\* earlier program is still suspended at its await on a scene since disposed.
C10_Witness ==
    /\ Len(scenes) >= 4
    /\ sceneRef = Len(scenes)
    /\ ~scenes[sceneRef].disposed
    /\ started.set /\ started.scene = sceneRef
    /\ \E run \in runs : run.scene < sceneRef /\ scenes[run.scene].disposed

\* The execution of the program of scene k has completed.
Completed(k) == results[k].kind \in {"returned", "threw"}

\* C11: whenever the execution of a program has completed, by a return or by
\* a throw, with or without meshes, its scene has an active camera.
C11_CameraAfterEveryRun ==
    \A k \in 1..Len(scenes) : Completed(k) => scenes[k].activeCamera # ""

\* C12: whenever the execution of a program has completed, by a return or by
\* a throw, its scene has at least one light.
C12_LightAfterEveryRun ==
    \A k \in 1..Len(scenes) : Completed(k) => scenes[k].lights >= 1

\* C13: when the execution of a program has thrown, a scene that had no mesh
\* at that point has exactly one mesh, the marker, and an active camera; a
\* scene that had a mesh has the meshes it had, and no marker.
C13_MarkerOnlyOnEmptyScene ==
    \A k \in 1..Len(scenes) :
        results[k].kind = "threw" =>
            IF results[k].meshesAt = 0
            THEN scenes[k].meshes = 1 /\ scenes[k].activeCamera # ""
            ELSE scenes[k].meshes = results[k].meshesAt

\* C14: the step in which the execution of a program fails (its text does not
\* compile, it throws, or a promise it awaits is rejected) makes the onError
\* callback, and no exception ever leaves runUserCode; the onLog callback of
\* success is not made in that step.
C14_FailureReported ==
    [][\A k \in 1..Len(scenes') :
          (results'[k].kind = "threw" /\ (k > Len(scenes) \/ results[k].kind # "threw"))
              => (notice' = "runtimeError" /\ ~unhandled')]_vars

\* C18: in a batch, a selected path for which the groups in memory give no sha
\* is passed over: no delete request names it, the loop never rests on it, the
\* deleted and failed counters count the answered requests only, every later
\* path of known sha is still requested, and no step of the batch issues a
\* listing request.
C18_UnknownShaSkipped ==
    /\ []((batch.active \/ BatchDone) =>
            LET unknown == {i \in 1..Len(batch.paths) : ~Known(batch, batch.paths[i])}
            IN  /\ \A i \in unknown, k \in 1..Len(reqLog) : reqLog[k].path # batch.paths[i]
                /\ batch.active => batch.i \notin unknown
                /\ batch.deletedCount = Cardinality(WithOutcome("ok"))
                /\ batch.errorCount = Cardinality(WithOutcome("failed"))
                /\ BatchDone =>
                      \A i \in 1..Len(batch.paths) :
                          Known(batch, batch.paths[i]) =>
                              \E k \in 1..Len(reqLog) : reqLog[k].path = batch.paths[i])
    /\ [][(ExecuteDelete \/ DeleteResolve \/ DeleteReject) => scans' = scans]_vars

\* A batch of two paths ended: the first, of a group of entries without sha,
\* was passed over, the second was requested and deleted.
C18_Witness ==
    /\ BatchDone
    /\ Len(batch.paths) = 2
    /\ ~Known(batch, batch.paths[1]) /\ Known(batch, batch.paths[2])
    /\ Len(reqLog) = 1 /\ reqLog[1].path = batch.paths[2] /\ reqLog[1].outcome = "ok"
    /\ status.kind = "complete" /\ status.n = 1

\* C19: a failed delete request records the scope hint when its message
\* contains 'Not Found' and its raw message otherwise, replacing what an
\* earlier failure recorded; a success leaves the recorded error as it is; and
\* the status line of a batch that ended with failures carries the recorded
\* error, that of the last failed request.
C19_LastErrorWins ==
    /\ [][\A msg \in Msgs :
             DeleteRejectWith(msg) =>
                 batch'.lastError = IF IncludesNotFound(msg) THEN ScopeHint ELSE msg]_vars
    /\ [][DeleteResolve => batch'.lastError = batch.lastError]_vars
    /\ []((BatchDone /\ Cardinality(WithOutcome("failed")) > 0) =>
            (status.kind = "partial" /\ status.text = batch.lastError
             /\ status.text \in {ScopeHint} \cup (Msgs \ {"Not Found"})))

\* Two requests failed and a third then succeeded: the status line carries the
\* raw message of a failure.
C19_Witness ==
    /\ BatchDone
    /\ Len(reqLog) = 3
    /\ reqLog[1].outcome = "failed" /\ reqLog[2].outcome = "failed"
    /\ reqLog[3].outcome = "ok"
    /\ status.kind = "partial" /\ status.text = "Bad credentials"

\* C20: after a scan, no file without sha is a member of a group and no path
\* of the selection is that of a listing entry without sha.
C20_NoShaNeverGrouped ==
    ScanDone =>
        /\ \A g \in 1..Len(duplicates) :
              \A k \in 1..Len(duplicates[g].files) : duplicates[g].files[k].sha # NoSha
        /\ \A i \in 1..Len(selectedToDelete) :
              \A k \in 1..Len(remote) :
                  remote[k].path = selectedToDelete[i] => remote[k].sha # NoSha

\* C21: a click on a member row flips the membership of that row's path in the
\* selection and of no other path, whatever the group of the path; the
\* selection keeps each path once; toggling the same path again gives back the
\* members the selection had; and the groups are left as they were.
C21_ToggleOnePath ==
    [][Toggle =>
         /\ duplicates' = duplicates
         /\ Len(selectedToDelete') = Cardinality(Range(selectedToDelete'))
         /\ \E path \in DisplayedPaths :
               /\ Range(selectedToDelete') =
                     IF path \in Range(selectedToDelete)
                     THEN Range(selectedToDelete) \ {path}
                     ELSE Range(selectedToDelete) \cup {path}
               /\ Range(ToggleSet(selectedToDelete', path)) = Range(selectedToDelete)]_vars

\* The keep member of a group of three is selected, the second member is not
\* and the third is.
C21_Witness ==
    /\ status.kind = "found" /\ ~isDeleting /\ ~showConfirm
    /\ Len(duplicates) = 1 /\ Len(duplicates[1].files) = 3
    /\ duplicates[1].files[1].path \in Range(selectedToDelete)
    /\ duplicates[1].files[2].path \notin Range(selectedToDelete)
    /\ duplicates[1].files[3].path \in Range(selectedToDelete)

(***************************************************************************)
(* Properties of the visualizer tab (checked under VisualizerSpec).        *)
(***************************************************************************)
\* C15: a step in which a generation request fails or returns no program text
\* puts an error entry in front of the console, leaves the program text, the
\* scenes and the active scene as they were, and issues no generation request
\* (the requests in flight are one fewer).
C15_GenerationFailureSurfaced ==
    [][(engine # "disposed" /\ (GenReject \/ \E k \in 1..Len(gens) : GenResolveWith(k, NoCode)))
          => /\ Len(logs') = Len(logs) + 1
             /\ logs'[1].type = "error"
             /\ code' = code
             /\ scenes' = scenes /\ sceneRef' = sceneRef
             /\ Len(gens') = Len(gens) - 1]_vars

\* C16: while the engine runs a frame can always be rendered, whatever
\* generation requests and program executions are in flight, and a frame
\* renders the scene sceneRef holds when the frame runs.
C16_FramesNeverBlocked ==
    /\ [](engine = "running" => ENABLED RenderFrame)
    /\ [][RenderFrame => lastRendered' = sceneRef]_vars

\* A frame has drawn the second scene or a later one while the program of that
\* scene is suspended at an await and a generation request is in flight.
C16_Witness ==
    /\ engine = "running"
    /\ sceneRef >= 2 /\ lastRendered = sceneRef
    /\ gens # <<>>
    /\ \E run \in runs : run.scene = sceneRef

C22_LastToPublishWins ==
    [][\A k \in 1..Len(gens), text \in Programs \cup {NoCode} :
          (engine # "disposed" /\ GenResolveWith(k, text)) =>
              /\ code' = text
              /\ (engine = "running" /\ text # NoCode /\ text # code) =>
                    (Len(scenes') = Len(scenes) + 1 /\ sceneRef' = Len(scenes'))]_vars

\* The code held, run on the third scene, is the text of a call that resolved
\* after a call made later had resolved and had its text run on the second.
C22_Witness ==
    /\ origin.overtaken
    /\ gens = <<>>
    /\ code # NoCode
    /\ engine = "running" /\ sceneRef = 3 /\ Len(scenes) = 3

\* C25: the preset an export writes carries, with the code, the prompt of the
\* generation request (or of the imported preset) that the code came from.
C25_PresetPairsPromptAndCode ==
    [][HandleExport => Preset.prompt = origin.prompt]_vars

\* The number of statements st of the program.
RECURSIVE Count(_, _)
Count(p, st) ==
    IF p = <<>> THEN 0 ELSE (IF Head(p) = st THEN 1 ELSE 0) + Count(Tail(p), st)

AtLeastOne(n) == IF n = 0 THEN 1 ELSE n

\* C23: a frame never draws a scene whose program is still running or that
\* has no camera yet.
C23_ActiveSceneComplete ==
    [][RenderFrame =>
          (results[sceneRef].kind # "running" /\ scenes[sceneRef].activeCamera # "")]_vars

\* C24: a scene whose program returned has the cameras and lights the program
\* created, or one camera where it created none and one light where it
\* created none: a program with an empty body leaves one camera and one light
\* on every scene it is run on, and no default is added to a camera or a light
\* of the program.
C24_RepairIdempotent ==
    \A k \in 1..Len(scenes) :
        (results[k].kind = "returned" /\ results[k].program # SyntaxError) =>
            /\ scenes[k].cameras = AtLeastOne(Count(results[k].program, "camera"))
            /\ scenes[k].lights = AtLeastOne(Count(results[k].program, "light"))
            /\ results[k].program = EmptyBody =>
                  (scenes[k].cameras = 1 /\ scenes[k].lights = 1
                   /\ scenes[k].activeCamera = "FallbackCamera")

\* The empty program has run on two scenes, with another program between the
\* two runs, and a program that creates its camera and light has returned.
C24_Witness ==
    /\ Len(scenes) = 4
    /\ results[2].program = EmptyBody /\ results[2].kind = "returned"
    /\ results[3].program = <<"camera", "light", "mesh">> /\ results[3].kind = "returned"
    /\ results[4].program = EmptyBody /\ results[4].kind = "returned"
    /\ scenes[2].cameras = scenes[4].cameras /\ scenes[2].lights = scenes[4].lights

(***************************************************************************)
(* Further properties of the cleanup dialog.                               *)
(***************************************************************************)
\* C26: a scan and a deletion batch are never in progress together.
C26_NeverScanAndDelete == ~(isScanning /\ isDeleting)

\* The paths of the members of the groups.
MemberPaths(dups) ==
    UNION {{dups[g].files[k].path : k \in 1..Len(dups[g].files)} : g \in 1..Len(dups)}

\* The members of the groups whose path it is.
MembersAt(dups, path) ==
    UNION {{dups[g].files[k] : k \in 1..Len(dups[g].files)} : g \in 1..Len(dups)}
        \cap {f \in UNION {Range(dups[g].files) : g \in 1..Len(dups)} : f.path = path}

\* C27: every path of the selection is the path of a member of a group held;
\* a batch finds each of its paths in its groups, so the paths it passes over
\* are those of members without sha only.
C27_SelectionWithinGroups ==
    /\ Range(selectedToDelete) \subseteq MemberPaths(duplicates)
    /\ batch.active =>
          \A i \in 1..Len(batch.paths) :
              /\ batch.paths[i] \in MemberPaths(batch.dups)
              /\ ~Known(batch, batch.paths[i]) =>
                    \A f \in MembersAt(batch.dups, batch.paths[i]) : f.sha = NoSha

\* The user selected the keep member and unselected the others, in a view of
\* two groups, one of them of files without sha.
C27_Witness ==
    /\ Len(duplicates) = 1 /\ Len(duplicates[1].files) = 3
    /\ duplicates[1].sha # NoSha
    /\ selectedToDelete = <<duplicates[1].files[1].path>>
    /\ batch.active /\ batch.paths = selectedToDelete

\* C28: when a batch that the user ran without a toggle since the scan (the
\* remembered scan of MemoSpec, or a later one) has ended with every request
\* a success, the keep member of every group with a sha is still in the
\* directory, with no other file of that sha, and every file deleted was a
\* redundant member.
C28_DefaultKeepsOneCopy ==
    (BatchDone /\ batch.untouched
        /\ \A k \in 1..Len(reqLog) : reqLog[k].outcome = "ok") =>
        /\ \A g \in 1..Len(batch.dups) :
              batch.dups[g].sha # NoSha =>
                  {remote[k].path : k \in WithSha(remote, batch.dups[g].sha)}
                      = {batch.dups[g].files[1].path}
        /\ \A k \in 1..Len(reqLog) : reqLog[k].path \in RedundantPaths(batch.dups)

\* C30 (safety part): a step of executeDelete that leaves no batch running
\* leaves isDeleting false and the confirmation prompt closed, also the step
\* that refuses an invalid repository string; a scan that ends, with its
\* listing or with a failure, leaves isScanning false.
C30_BusyStatesClear ==
    /\ [][((ExecuteDelete \/ DeleteResolve \/ DeleteReject)
              /\ Len(selectedToDelete) # 0 /\ ~batch'.active)
            => (~isDeleting' /\ ~showConfirm')]_vars
    /\ [][(ScanResolve \/ ScanReject) => ~isScanning']_vars

(***************************************************************************)
(* Further properties of the scene viewer.                                 *)
(***************************************************************************)
\* C29: while the engine runs, the active scene is the scene created last,
\* that of the execution started last, whatever executions are still
\* suspended or have finished; and an execution that resumes changes no scene
\* but the one it was started with, and does not move sceneRef.
C29_NewestSceneActive ==
    /\ [](engine = "running" => sceneRef = Len(scenes))
    /\ [][Resume =>
            \E run \in runs :
                /\ sceneRef' = sceneRef
                /\ \A k \in 1..Len(scenes) : k # run.scene => scenes'[k] = scenes[k]]_vars

\* The execution on the second scene, suspended when the third scene was
\* created, has failed since: its error fallback put the ErrorBox and the
\* ErrorCam on the second scene, which is disposed, and the third scene,
\* whose program is still suspended, is the active one.
C29_Witness ==
    /\ engine = "running"
    /\ Len(scenes) = 3 /\ sceneRef = 3
    /\ results[2].program = <<"light", "await", "throw">> /\ results[2].kind = "threw"
    /\ scenes[2].disposed /\ scenes[2].meshes = 1 /\ scenes[2].activeCamera = "ErrorCam"
    /\ results[3].kind = "running" /\ scenes[3].meshes = 0

============================================================================
